---------------------------- MODULE Spec2Model ----------------------------
(***************************************************************************)
(* flask-parameter-validation: the Parameter base class (validate,         *)
(* func_helper, convert) and the Query source adapter (convert).           *)
(*                                                                         *)
(* Python values are tagged records [t, s, n, e, items]:                   *)
(*   t      the Python type name                                           *)
(*   s      the characters of a str (a sequence of one-character strings)  *)
(*   n, e   the number: an int n; a bool 0/1; a float n / 10^e; the key    *)
(*          count of a dict; a date yyyymmdd in n and a time hhmmss in e   *)
(*   items  the elements of a list or tuple                                *)
(* An operation ends in an outcome [kind, value, reason]: kind "return"    *)
(* or the class of the exception that left the call.                       *)
(***************************************************************************)
EXTENDS Integers, Sequences, FiniteSets, TLC

VARIABLES pc, op, value, allowed_types, param, parser_accepts, result, log

vars == <<pc, op, value, allowed_types, param, parser_accepts, result, log>>

-----------------------------------------------------------------------------
(* Bounds of the model *)

\* longest generated raw string
MaxLen == 2
\* longest generated list value
MaxListLen == 2
\* longest generated acceptable-type list
MaxTypes == 2
\* most keyword arguments set on a generated Parameter
MaxConstraints == 3

-----------------------------------------------------------------------------
(* Python values *)

Val(t, s, n, e, items) == [t |-> t, s |-> s, n |-> n, e |-> e, items |-> items]

StrV(s) == Val("str", s, 0, 0, <<>>)
IntV(n) == Val("int", <<>>, n, 0, <<>>)
BoolV(b) == Val("bool", <<>>, IF b THEN 1 ELSE 0, 0, <<>>)
FloatV(m, e) == Val("float", <<>>, m, e, <<>>)
NoneV == Val("NoneType", <<>>, 0, 0, <<>>)
DictV(k) == Val("dict", <<>>, k, 0, <<>>)
ListV(items) == Val("list", <<>>, 0, 0, items)
TupleV(items) == Val("tuple", <<>>, 0, 0, items)
DateTime(d, tm) == Val("datetime", <<>>, d, tm, <<>>)
\* a datetime the free-form parser built from a text outside ISO 8601
OpaqueDateTime(s) == Val("datetime", s, 0, 0, <<>>)
Date(d) == Val("date", <<>>, d, 0, <<>>)
Time(tm, micro) == Val("time", <<>>, tm, micro, <<>>)
IntEnumMember(n) == Val("IntEnum", <<>>, n, 0, <<>>)
StrEnumMember(s) == Val("StrEnum", s, 0, 0, <<>>)

\* the members of the two enum classes of the model, by backing value
IntEnumValues == {1, 2}
StrEnumValues == {<<"a">>, <<"2">>}

-----------------------------------------------------------------------------
(* Outcomes *)

NoReason == [text |-> "", n |-> 0, s |-> <<>>]
Reason(text, n, s) == [text |-> text, n |-> n, s |-> s]

Return(v) == [kind |-> "return", value |-> v, reason |-> NoReason]
Raise(kind, reason) == [kind |-> kind, value |-> NoneV, reason |-> reason]
ValueError(text) == Raise("ValueError", Reason(text, 0, <<>>))
TypeError(text) == Raise("TypeError", Reason(text, 0, <<>>))
AttributeError(text) == Raise("AttributeError", Reason(text, 0, <<>>))
NoResult == [kind |-> "none", value |-> NoneV, reason |-> NoReason]

-----------------------------------------------------------------------------
(* Characters and numerals *)

DigitChars == <<"0", "1", "2", "3", "4", "5", "6", "7", "8", "9">>
UpperChars == <<"A", "B", "C", "D", "E", "F", "G", "H", "I", "J", "K", "L", "M",
                "N", "O", "P", "Q", "R", "S", "T", "U", "V", "W", "X", "Y", "Z">>
LowerChars == <<"a", "b", "c", "d", "e", "f", "g", "h", "i", "j", "k", "l", "m",
                "n", "o", "p", "q", "r", "s", "t", "u", "v", "w", "x", "y", "z">>

IsDigit(c) == \E i \in 1..10 : DigitChars[i] = c
DigitVal(c) == (CHOOSE i \in 1..10 : DigitChars[i] = c) - 1
AllDigits(s) == Len(s) > 0 /\ \A i \in 1..Len(s) : IsDigit(s[i])

RECURSIVE DigitsToInt(_)
DigitsToInt(s) ==
    IF s = <<>> THEN 0
    ELSE DigitsToInt(SubSeq(s, 1, Len(s) - 1)) * 10 + DigitVal(s[Len(s)])

RECURSIVE NatToDigits(_)
NatToDigits(n) ==
    IF n < 10 THEN <<DigitChars[n + 1]>>
    ELSE NatToDigits(n \div 10) \o <<DigitChars[(n % 10) + 1]>>

RECURSIVE Pow10(_)
Pow10(e) == IF e = 0 THEN 1 ELSE 10 * Pow10(e - 1)

Abs(n) == IF n < 0 THEN -n ELSE n

RECURSIVE ZeroPad(_, _)
ZeroPad(s, width) == IF Len(s) >= width THEN s ELSE ZeroPad(<<"0">> \o s, width)

IsSign(c) == c = "+" \/ c = "-"
Unsigned(s) == IF Len(s) > 0 /\ IsSign(s[1]) THEN SubSeq(s, 2, Len(s)) ELSE s
SignOf(s) == IF Len(s) > 0 /\ s[1] = "-" THEN -1 ELSE 1

\* position of the first c in s, 0 when there is none
IndexOf(s, c) ==
    IF \E i \in 1..Len(s) : s[i] = c
    THEN CHOOSE i \in 1..Len(s) : s[i] = c /\ \A j \in 1..(i - 1) : s[j] # c
    ELSE 0

\* `sub in s` for two Python strings
Contains(sub, s) ==
    \E i \in 1..(Len(s) - Len(sub) + 1) : SubSeq(s, i, i + Len(sub) - 1) = sub

\* str.lower()
LowerChar(c) ==
    IF \E i \in 1..26 : UpperChars[i] = c
    THEN LowerChars[CHOOSE i \in 1..26 : UpperChars[i] = c]
    ELSE c
Lower(s) == [i \in 1..Len(s) |-> LowerChar(s[i])]


-----------------------------------------------------------------------------
(* Python builtins and library calls the two classes make.  Each is modelled *)
(* on the texts of the model's alphabet (see RawStrings) and ends in an      *)
(* outcome.                                                                  *)

\* str(value); repr(value) inside a list
RECURSIVE PyStr(_)
RECURSIVE JoinRepr(_, _)
PyRepr(v) == IF v.t = "str" THEN <<"'">> \o v.s \o <<"'">> ELSE PyStr(v)
JoinRepr(items, i) ==
    IF i > Len(items) THEN <<>>
    ELSE (IF i > 1 THEN <<",", " ">> ELSE <<>>) \o PyRepr(items[i]) \o JoinRepr(items, i + 1)
PyStr(v) ==
    CASE v.t = "str" -> v.s
      [] v.t = "int" -> IF v.n < 0 THEN <<"-">> \o NatToDigits(-v.n) ELSE NatToDigits(v.n)
      [] v.t = "bool" -> IF v.n = 1 THEN <<"T", "r", "u", "e">> ELSE <<"F", "a", "l", "s", "e">>
      [] v.t = "NoneType" -> <<"N", "o", "n", "e">>
      [] v.t = "float" ->
            (IF v.n < 0 THEN <<"-">> ELSE <<>>)
            \o NatToDigits(Abs(v.n) \div Pow10(v.e)) \o <<".">>
            \o (IF v.e = 0 THEN <<"0">>
                ELSE ZeroPad(NatToDigits(Abs(v.n) % Pow10(v.e)), v.e))
      [] v.t = "dict" -> IF v.n = 0 THEN <<"{", "}">>
                         ELSE <<"{", "'", "a", "'", ":", " ", "1", "}">>
      [] v.t = "list" -> <<"[">> \o JoinRepr(v.items, 1) \o <<"]">>

\* len(value)
PyLen(v) ==
    CASE v.t = "str" -> Return(IntV(Len(v.s)))
      [] v.t = "dict" -> Return(IntV(v.n))
      [] v.t \in {"list", "tuple"} -> Return(IntV(Len(v.items)))
      [] OTHER -> TypeError("object has no len()")

\* the text of an int literal: an optional sign and decimal digits
IsIntLiteral(s) == AllDigits(Unsigned(s))
IntLiteral(s) == SignOf(s) * DigitsToInt(Unsigned(s))

\* int(value)
PyInt(v) ==
    CASE v.t = "str" -> IF IsIntLiteral(v.s) THEN Return(IntV(IntLiteral(v.s)))
                        ELSE ValueError("invalid literal for int() with base 10")
      [] v.t \in {"int", "bool", "IntEnum"} -> Return(IntV(v.n))
      [] v.t = "float" -> Return(IntV(SignOf(IF v.n < 0 THEN <<"-">> ELSE <<>>)
                                      * (Abs(v.n) \div Pow10(v.e))))
      [] OTHER -> TypeError("int() argument must be a string, a bytes-like object or a real number")

\* the text of a float literal: [sign] digits [. [digits]]  or  [sign] . digits
IsFloatLiteral(s) ==
    LET u == Unsigned(s)
        dot == IndexOf(u, ".")
        whole == IF dot = 0 THEN u ELSE SubSeq(u, 1, dot - 1)
        frac == IF dot = 0 THEN <<>> ELSE SubSeq(u, dot + 1, Len(u))
    IN  /\ whole = <<>> \/ AllDigits(whole)
        /\ frac = <<>> \/ AllDigits(frac)
        /\ whole # <<>> \/ frac # <<>>

\* float n / 10^e without trailing zeros in the fraction
RECURSIVE NormFloat(_, _)
NormFloat(m, e) ==
    IF e > 0 /\ m % 10 = 0 THEN NormFloat(m \div 10, e - 1) ELSE FloatV(m, e)

FloatLiteral(s) ==
    LET u == Unsigned(s)
        dot == IndexOf(u, ".")
        whole == IF dot = 0 THEN u ELSE SubSeq(u, 1, dot - 1)
        frac == IF dot = 0 THEN <<>> ELSE SubSeq(u, dot + 1, Len(u))
    IN  NormFloat(SignOf(s) * DigitsToInt(whole \o frac), Len(frac))

\* float(value)
PyFloat(v) ==
    CASE v.t = "str" -> IF IsFloatLiteral(v.s) THEN Return(FloatLiteral(v.s))
                        ELSE ValueError("could not convert string to float")
      [] v.t \in {"int", "bool"} -> Return(FloatV(v.n, 0))
      [] v.t = "float" -> Return(v)
      [] OTHER -> TypeError("float() argument must be a string or a real number")

\* a JSON number: [-] int [. digits], the int without a leading zero
IsJsonNumber(s) ==
    LET u == IF Len(s) > 0 /\ s[1] = "-" THEN SubSeq(s, 2, Len(s)) ELSE s
        dot == IndexOf(u, ".")
        whole == IF dot = 0 THEN u ELSE SubSeq(u, 1, dot - 1)
        frac == IF dot = 0 THEN <<>> ELSE SubSeq(u, dot + 1, Len(u))
    IN  /\ AllDigits(whole)
        /\ Len(whole) = 1 \/ whole[1] # "0"
        /\ dot = 0 \/ AllDigits(frac)

\* json.loads(value)
JsonLoads(v) ==
    IF v.t # "str" THEN TypeError("the JSON object must be str, bytes or bytearray")
    ELSE CASE v.s = <<"t", "r", "u", "e">> -> Return(BoolV(TRUE))
           [] v.s = <<"f", "a", "l", "s", "e">> -> Return(BoolV(FALSE))
           [] v.s = <<"n", "u", "l", "l">> -> Return(NoneV)
           [] v.s = <<"{", "}">> -> Return(DictV(0))
           [] v.s = <<"[", "]">> -> Return(ListV(<<>>))
           [] IsJsonNumber(v.s) ->
                IF IndexOf(v.s, ".") = 0 THEN Return(IntV(IntLiteral(v.s)))
                ELSE Return(FloatLiteral(v.s))
           [] OTHER -> ValueError("JSONDecodeError")


\* re.match(pattern, value) is not None.  A pattern is a regex text: a run of
\* literal characters (matched as a prefix) or the class pattern [0-9]+$
DigitsPattern == <<"[", "0", "-", "9", "]", "+", "$">>
ReMatch(pattern, v) ==
    IF v.t # "str" THEN TypeError("expected string or bytes-like object")
    ELSE IF pattern = DigitsPattern THEN Return(BoolV(AllDigits(v.s)))
    ELSE Return(BoolV(Len(v.s) >= Len(pattern) /\ SubSeq(v.s, 1, Len(pattern)) = pattern))

LeapYear(y) == (y % 4 = 0 /\ y % 100 # 0) \/ y % 400 = 0
DaysInMonth(y, m) ==
    IF m = 2 THEN (IF LeapYear(y) THEN 29 ELSE 28)
    ELSE IF m \in {4, 6, 9, 11} THEN 30 ELSE 31
ValidDate(y, m, d) == y >= 1 /\ m \in 1..12 /\ d \in 1..DaysInMonth(y, m)
DateCode(y, m, d) == y * 10000 + m * 100 + d
ValidTime(h, m, sec) == h \in 0..23 /\ m \in 0..59 /\ sec \in 0..59
TimeCode(h, m, sec) == h * 10000 + m * 100 + sec

\* the fields of s between the separators sep
RECURSIVE Split(_, _)
Split(s, sep) ==
    LET i == IndexOf(s, sep)
    IN  IF i = 0 THEN <<s>>
        ELSE <<SubSeq(s, 1, i - 1)>> \o Split(SubSeq(s, i + 1, Len(s)), sep)

Num(s) == DigitsToInt(s)

\* YYYY-MM-DD or YYYYMMDD
IsIsoDate(s) ==
    \/ /\ Len(s) = 10 /\ s[5] = "-" /\ s[8] = "-"
       /\ AllDigits(SubSeq(s, 1, 4)) /\ AllDigits(SubSeq(s, 6, 7)) /\ AllDigits(SubSeq(s, 9, 10))
       /\ ValidDate(Num(SubSeq(s, 1, 4)), Num(SubSeq(s, 6, 7)), Num(SubSeq(s, 9, 10)))
    \/ /\ Len(s) = 8 /\ AllDigits(s)
       /\ ValidDate(Num(SubSeq(s, 1, 4)), Num(SubSeq(s, 5, 6)), Num(SubSeq(s, 7, 8)))
IsoDateCode(s) ==
    IF Len(s) = 10
    THEN DateCode(Num(SubSeq(s, 1, 4)), Num(SubSeq(s, 6, 7)), Num(SubSeq(s, 9, 10)))
    ELSE DateCode(Num(SubSeq(s, 1, 4)), Num(SubSeq(s, 5, 6)), Num(SubSeq(s, 7, 8)))

\* date.fromisoformat(text)
DateFromIsoFormat(s) ==
    IF IsIsoDate(s) THEN Return(Date(IsoDateCode(s)))
    ELSE ValueError("Invalid isoformat string")

\* HH, HHMM, HHMMSS, HH:MM, HH:MM:SS, and HH.f (a fraction of a second)
IsoTimeFields(s) ==
    CASE Len(s) = 2 /\ AllDigits(s) -> <<Num(s), 0, 0, 0>>
      [] Len(s) = 4 /\ AllDigits(s) -> <<Num(SubSeq(s, 1, 2)), Num(SubSeq(s, 3, 4)), 0, 0>>
      [] Len(s) = 6 /\ AllDigits(s) ->
            <<Num(SubSeq(s, 1, 2)), Num(SubSeq(s, 3, 4)), Num(SubSeq(s, 5, 6)), 0>>
      [] Len(s) = 5 /\ s[3] = ":" /\ AllDigits(SubSeq(s, 1, 2)) /\ AllDigits(SubSeq(s, 4, 5)) ->
            <<Num(SubSeq(s, 1, 2)), Num(SubSeq(s, 4, 5)), 0, 0>>
      [] Len(s) = 8 /\ s[3] = ":" /\ s[6] = ":" /\ AllDigits(SubSeq(s, 1, 2))
         /\ AllDigits(SubSeq(s, 4, 5)) /\ AllDigits(SubSeq(s, 7, 8)) ->
            <<Num(SubSeq(s, 1, 2)), Num(SubSeq(s, 4, 5)), Num(SubSeq(s, 7, 8)), 0>>
      [] Len(s) \in 4..9 /\ s[3] = "." /\ AllDigits(SubSeq(s, 1, 2))
         /\ AllDigits(SubSeq(s, 4, Len(s))) ->
            <<Num(SubSeq(s, 1, 2)), 0, 0, Num(SubSeq(s, 4, Len(s))) * Pow10(9 - Len(s))>>
      [] OTHER -> <<99, 99, 99, 0>>
IsIsoTime(s) == LET f == IsoTimeFields(s) IN ValidTime(f[1], f[2], f[3])

\* time.fromisoformat(text)
TimeFromIsoFormat(s) ==
    IF IsIsoTime(s)
    THEN LET f == IsoTimeFields(s) IN Return(Time(TimeCode(f[1], f[2], f[3]), f[4]))
    ELSE ValueError("Invalid isoformat string")

\* the strptime format of the model
YmdFormat == <<"%", "Y", "-", "%", "m", "-", "%", "d">>

\* datetime.strptime(text, "%Y-%m-%d"): %Y four digits, %m and %d one or two
Strptime(s, format) ==
    LET f == Split(s, "-")
        ok == /\ format = YmdFormat
              /\ Len(f) = 3
              /\ Len(f[1]) = 4 /\ AllDigits(f[1])
              /\ Len(f[2]) \in 1..2 /\ AllDigits(f[2])
              /\ Len(f[3]) \in 1..2 /\ AllDigits(f[3])
              /\ ValidDate(Num(f[1]), Num(f[2]), Num(f[3]))
    IN  IF ok THEN Return(DateTime(DateCode(Num(f[1]), Num(f[2]), Num(f[3])), 0))
        ELSE ValueError("time data does not match format")

\* dateutil's parser.parse(text).  An ISO 8601 date or date-time parses to its
\* fields; a text without a digit is no date; on any other text the parser's
\* verdict is an input of the call (accepts).
IsIsoDateTime(s) ==
    /\ Len(s) = 19 /\ s[11] = "T"
    /\ Len(SubSeq(s, 1, 10)) = 10 /\ s[5] = "-" /\ IsIsoDate(SubSeq(s, 1, 10))
    /\ IsIsoTime(SubSeq(s, 12, 19))
HasDigit(s) == \E i \in 1..Len(s) : IsDigit(s[i])
ParserParse(s, accepts) ==
    CASE Len(s) = 10 /\ IsIsoDate(s) -> Return(DateTime(IsoDateCode(s), 0))
      [] IsIsoDateTime(s) ->
            LET f == IsoTimeFields(SubSeq(s, 12, 19))
            IN  Return(DateTime(IsoDateCode(SubSeq(s, 1, 10)), TimeCode(f[1], f[2], f[3])))
      [] OTHER -> IF HasDigit(s) /\ accepts THEN Return(OpaqueDateTime(s))
                  ELSE Raise("ParserError", Reason("Unknown string format", 0, <<>>))

\* allowed_types[0](value) for the IntEnum and the StrEnum of the model
EnumCall(type, v) ==
    IF type = "IntEnum" /\ v.t \in {"int", "bool"} /\ v.n \in IntEnumValues
    THEN Return(IntEnumMember(v.n))
    ELSE IF type = "StrEnum" /\ v.t = "str" /\ v.s \in StrEnumValues
    THEN Return(StrEnumMember(v.s))
    ELSE ValueError("is not a valid enum value")


-----------------------------------------------------------------------------
(* Parameter *)

\* an unset keyword argument (None) and a set one
Unset == [some |-> FALSE, n |-> 0, s |-> <<>>]
SetN(n) == [some |-> TRUE, n |-> n, s |-> <<>>]
SetS(s) == [some |-> TRUE, n |-> 0, s |-> s]
NoFunc == [some |-> FALSE, ret |-> NoneV]
\* a predicate, by the value it returns
Func(ret) == [some |-> TRUE, ret |-> ret]

\* Parameter.__init__ with every keyword argument at its default
DefaultParameter ==
    [min_list_length |-> Unset, max_list_length |-> Unset,
     min_str_length |-> Unset, max_str_length |-> Unset,
     min_int |-> Unset, max_int |-> Unset,
     whitelist |-> Unset, blacklist |-> Unset, pattern |-> Unset,
     func |-> NoFunc, datetime_format |-> Unset, json_schema |-> Unset]

\* `type in allowed_types`
In(type, types) == \E i \in 1..Len(types) : types[i] = type

IsEnumType(type) == type \in {"StrEnum", "IntEnum"}
IsClass(type) == type # "None"

\* a variant of the datetime branch in which a failed free-form parse is an error
ConvertDatetimeFailing(self, v, accepts) ==
    IF ~self.datetime_format.some
    THEN LET r == ParserParse(PyStr(v), accepts)
         IN  IF r.kind = "return" THEN r
             ELSE Raise("ValueError", Reason("datetime format does not match: {}", 0, <<>>))
    ELSE LET r == Strptime(PyStr(v), self.datetime_format.s)
         IN  IF r.kind = "return" THEN r
             ELSE Raise("ValueError",
                        Reason("datetime format does not match: {}", 0, self.datetime_format.s))

\* the datetime branch of Parameter.convert
ConvertDatetime(self, v, accepts) ==
    IF ~self.datetime_format.some
    THEN LET r == ParserParse(PyStr(v), accepts)
         IN  IF r.kind = "return" THEN r ELSE Return(v)
    ELSE LET r == Strptime(PyStr(v), self.datetime_format.s)
         IN  IF r.kind = "return" THEN r
             ELSE Raise("ValueError",
                        Reason("datetime format does not match: {}", 0, self.datetime_format.s))

\* a variant of the time branch that hands the raw value back on a parse failure
ConvertTimeFallback(v) ==
    LET r == TimeFromIsoFormat(PyStr(v))
    IN  IF r.kind = "return" THEN r ELSE Return(v)

\* the time branch of Parameter.convert
ConvertTime(v) ==
    LET r == TimeFromIsoFormat(PyStr(v))
    IN  IF r.kind = "return" THEN r ELSE ValueError("time format does not match ISO 8601")

\* the date branch of Parameter.convert
ConvertDate(v) ==
    LET r == DateFromIsoFormat(PyStr(v))
    IN  IF r.kind = "return" THEN r ELSE ValueError("date format does not match ISO 8601")

\* the enum branch of Parameter.convert
ConvertEnum(type, v) ==
    IF type = "IntEnum"
    THEN LET i == PyInt(v)
         IN  IF i.kind = "return" THEN EnumCall(type, i.value) ELSE i
    ELSE EnumCall(type, v)

\* Parameter.convert(value, allowed_types)
ParameterConvert(self, v, types, accepts) ==
    IF In("None", types) /\ v.t = "NoneType" THEN Return(v)
    ELSE IF In("datetime", types) THEN ConvertDatetime(self, v, accepts)
    ELSE IF In("time", types) THEN ConvertTime(v)
    ELSE IF In("date", types) THEN ConvertDate(v)
    ELSE IF Len(types) = 1 /\ ~IsClass(types[1])
    THEN TypeError("issubclass() arg 1 must be a class")
    ELSE IF Len(types) = 1 /\ IsEnumType(types[1]) THEN ConvertEnum(types[1], v)
    ELSE Return(v)

-----------------------------------------------------------------------------
(* Query *)

\* int conversion
QueryInt(v, types) ==
    IF In("int", types)
    THEN LET r == PyInt(v) IN IF r.kind = "ValueError" THEN Return(v) ELSE r
    ELSE Return(v)

\* float conversion
QueryFloat(v, types) ==
    IF In("float", types)
    THEN LET r == PyFloat(v) IN IF r.kind = "ValueError" THEN Return(v) ELSE r
    ELSE Return(v)

\* bool conversion
QueryBool(v, types) ==
    IF In("bool", types)
    THEN IF v.t # "str" THEN AttributeError("object has no attribute 'lower'")
         ELSE IF Lower(v.s) = <<"t", "r", "u", "e">> THEN Return(BoolV(TRUE))
         ELSE IF Lower(v.s) = <<"f", "a", "l", "s", "e">> THEN Return(BoolV(FALSE))
         ELSE Return(v)
    ELSE Return(v)

\* dict conversion
QueryDict(v, types) ==
    IF In("dict", types)
    THEN LET r == JsonLoads(v) IN IF r.kind = "ValueError" THEN ValueError("invalid JSON") ELSE r
    ELSE Return(v)

\* the statements of Query.convert before the call of super().convert
QueryCoerce(v, types) ==
    IF v.t # "str" THEN Return(v)
    ELSE LET a == QueryInt(v, types)
             b == IF a.kind = "return" THEN QueryFloat(a.value, types) ELSE a
             c == IF b.kind = "return" THEN QueryBool(b.value, types) ELSE b
         IN  IF c.kind = "return" THEN QueryDict(c.value, types) ELSE c

\* Query.convert(value, allowed_types)
QueryConvert(self, v, types, accepts) ==
    LET q == QueryCoerce(v, types)
    IN  IF q.kind = "return" THEN ParameterConvert(self, q.value, types, accepts) ELSE q


-----------------------------------------------------------------------------
(* Parameter.func_helper and Parameter.validate *)

\* the ValueError of a failed check: its message, threshold and text
Fails(text, n, s) == Raise("ValueError", Reason(text, n, s))
Passes == Return(NoneV)

\* Parameter.func_helper(v): self.func returns self.func.ret
func_helper(self, v) ==
    LET func_result == self.func.ret
    IN  IF func_result.t = "bool"
        THEN IF func_result.n = 0
             THEN Fails("value does not match the validator function.", 0, <<>>)
             ELSE Passes
        ELSE IF func_result.t = "tuple"
        THEN IF /\ Len(func_result.items) = 2
                /\ func_result.items[1].t = "bool"
                /\ func_result.items[2].t = "str"
             THEN IF func_result.items[1].n = 0
                  THEN Fails("{}", 0, func_result.items[2].s)
                  ELSE Passes
             ELSE Fails("validator function returned incorrect type: {}, should return bool or (bool, str)",
                        0, <<>>)
        ELSE Passes

\* jsonschema.validate(value, schema) for a schema {"type": ...}
JsonSchemaValidate(v, schema) ==
    IF \/ schema = <<"object">> /\ v.t = "dict"
       \/ schema = <<"array">> /\ v.t = "list"
    THEN Passes
    ELSE Fails("failed JSON Schema validation: {}", 0, schema)

\* the checks validate makes on the whole value, in the order of the code
ValueChecks == <<"min_list_length", "max_list_length", "list_func", "json_schema">>

\* the checks validate makes on each unit, in the order of the code
UnitChecks == <<"min_str_length", "max_str_length", "whitelist", "blacklist",
                "min_int", "max_int", "pattern", "func">>

\* a variant of Configured without the guard `not original_value_type_list`:
\* the predicate also runs on every element of a list
ConfiguredFuncPerElement(self, check, v, is_list) ==
    CASE check = "min_list_length" -> is_list /\ self.min_list_length.some
      [] check = "max_list_length" -> is_list /\ self.max_list_length.some
      [] check = "list_func" -> is_list /\ self.func.some
      [] check = "json_schema" -> v.t \in {"list", "dict"} /\ self.json_schema.some
      [] check = "min_str_length" -> self.min_str_length.some
      [] check = "max_str_length" -> self.max_str_length.some
      [] check = "whitelist" -> self.whitelist.some
      [] check = "blacklist" -> self.blacklist.some
      [] check = "min_int" -> self.min_int.some
      [] check = "max_int" -> self.max_int.some
      [] check = "pattern" -> self.pattern.some
      [] check = "func" -> self.func.some

\* the condition under which validate evaluates a check
Configured(self, check, v, is_list) ==
    CASE check = "min_list_length" -> is_list /\ self.min_list_length.some
      [] check = "max_list_length" -> is_list /\ self.max_list_length.some
      [] check = "list_func" -> is_list /\ self.func.some
      [] check = "json_schema" -> v.t \in {"list", "dict"} /\ self.json_schema.some
      [] check = "min_str_length" -> self.min_str_length.some
      [] check = "max_str_length" -> self.max_str_length.some
      [] check = "whitelist" -> self.whitelist.some
      [] check = "blacklist" -> self.blacklist.some
      [] check = "min_int" -> self.min_int.some
      [] check = "max_int" -> self.max_int.some
      [] check = "pattern" -> self.pattern.some
      [] check = "func" -> self.func.some /\ ~is_list

\* the first substring of the blacklist found in text, 0 when none is
FirstBad(blacklist, text) ==
    IF \E i \in 1..Len(blacklist) : Contains(blacklist[i], text)
    THEN CHOOSE i \in 1..Len(blacklist) :
            /\ Contains(blacklist[i], text)
            /\ \A j \in 1..(i - 1) : ~Contains(blacklist[j], text)
    ELSE 0

\* one check of validate on v: Passes, or the exception it raises
Check(self, check, v) ==
    CASE check = "min_list_length" ->
            IF Len(v.items) < self.min_list_length.n
            THEN Fails("must have at least {} items.", self.min_list_length.n, <<>>)
            ELSE Passes
      [] check = "max_list_length" ->
            IF Len(v.items) > self.max_list_length.n
            THEN Fails("must have have a maximum of {} items.", self.max_list_length.n, <<>>)
            ELSE Passes
      [] check = "list_func" -> func_helper(self, v)
      [] check = "json_schema" -> JsonSchemaValidate(v, self.json_schema.s)
      [] check = "min_str_length" ->
            LET l == PyLen(v)
            IN  IF l.kind # "return" THEN l
                ELSE IF l.value.n < self.min_str_length.n
                THEN Fails("must have at least {} characters.", self.min_str_length.n, <<>>)
                ELSE Passes
      [] check = "max_str_length" ->
            LET l == PyLen(v)
            IN  IF l.kind # "return" THEN l
                ELSE IF l.value.n > self.max_str_length.n
                THEN Fails("must have a maximum of {} characters.", self.max_str_length.n, <<>>)
                ELSE Passes
      [] check = "whitelist" ->
            IF \E i \in 1..Len(PyStr(v)) : ~Contains(<<PyStr(v)[i]>>, self.whitelist.s)
            THEN Fails("must contain only characters: {}", 0, self.whitelist.s)
            ELSE Passes
      [] check = "blacklist" ->
            LET bad == FirstBad(self.blacklist.s, PyStr(v))
            IN  IF bad # 0 THEN Fails("must not contain: {}", 0, self.blacklist.s[bad])
                ELSE Passes
      [] check = "min_int" ->
            LET i == PyInt(v)
            IN  IF i.kind # "return" THEN i
                ELSE IF i.value.n < self.min_int.n
                THEN Fails("must be at least {}.", self.min_int.n, <<>>)
                ELSE Passes
      [] check = "max_int" ->
            LET i == PyInt(v)
            IN  IF i.kind # "return" THEN i
                ELSE IF i.value.n > self.max_int.n
                THEN Fails("must be at most {}.", self.max_int.n, <<>>)
                ELSE Passes
      [] check = "pattern" ->
            LET m == ReMatch(self.pattern.s, v)
            IN  IF m.kind # "return" THEN m
                ELSE IF m.value.n = 0
                THEN Fails("pattern does not match: {}.", 0, self.pattern.s)
                ELSE Passes
      [] check = "func" -> func_helper(self, v)

\* a run of validate: how it ended and the checks it evaluated, in order
Run(out, trace) == [out |-> out, log |-> trace]
Entry(unit, check) == [unit |-> unit, check |-> check]

\* checks[k..] on v, stopping at the first that raises
RECURSIVE RunChecks(_, _, _, _, _, _)
RunChecks(self, checks, k, v, unit, is_list) ==
    IF k > Len(checks) THEN Run(Passes, <<>>)
    ELSE IF ~Configured(self, checks[k], v, is_list)
    THEN RunChecks(self, checks, k + 1, v, unit, is_list)
    ELSE LET r == Check(self, checks[k], v)
         IN  IF r.kind # "return" THEN Run(r, <<Entry(unit, checks[k])>>)
             ELSE LET rest == RunChecks(self, checks, k + 1, v, unit, is_list)
                  IN  Run(rest.out, <<Entry(unit, checks[k])>> \o rest.log)

\* the loop `for value in values`, from element i on
RECURSIVE RunUnits(_, _, _, _)
RunUnits(self, values, i, is_list) ==
    IF i > Len(values) THEN Run(Passes, <<>>)
    ELSE LET r == RunChecks(self, UnitChecks, 1, values[i], i, is_list)
         IN  IF r.out.kind # "return" THEN r
             ELSE LET rest == RunUnits(self, values, i + 1, is_list)
                  IN  Run(rest.out, r.log \o rest.log)

\* Parameter.validate(value)
validate(self, v) ==
    LET original_value_type_list == v.t = "list"
        head == RunChecks(self, ValueChecks, 1, v, 0, original_value_type_list)
        values == IF original_value_type_list THEN v.items ELSE <<v>>
    IN  IF head.out.kind # "return" THEN head
        ELSE LET units == RunUnits(self, values, 1, original_value_type_list)
             IN  IF units.out.kind # "return" THEN Run(units.out, head.log \o units.log)
                 ELSE Run(Return(BoolV(TRUE)), head.log \o units.log)


-----------------------------------------------------------------------------
(* The inputs of the model *)

\* the characters of the generated raw strings
Alphabet == {"2", "5", "9", "+", "-", ".", "{", "}"}

RECURSIVE StringsUpTo(_, _)
StringsUpTo(chars, n) ==
    IF n = 0 THEN {<<>>}
    ELSE LET shorter == StringsUpTo(chars, n - 1)
         IN  shorter \cup {Append(s, c) : s \in shorter, c \in chars}

\* raw texts a request carries beyond the generated ones
CuratedStrings ==
    {<<"t", "r", "u", "e">>,
     <<"T", "r", "u", "e">>,
     <<"F", "A", "L", "S", "E">>,
     <<"f", "a", "l", "s", "e">>,
     <<"a", "b", "c">>,
     <<"a">>,
     <<"n", "u", "l", "l">>,
     <<"[", "]">>,
     <<"{", "n", "o", "t", " ", "v", "a", "l", "i", "d", " ", "j", "s", "o", "n">>,
     <<"2", "0", "2", "4", "-", "0", "1", "-", "1", "5">>,
     <<"2", "0", "2", "4", "-", "1", "-", "1", "5">>,
     <<"2", "0", "2", "4", "-", "0", "2", "-", "3", "0">>,
     <<"0", "1", "/", "1", "5", "/", "2", "0", "2", "4">>,
     <<"2", "0", "2", "4", "-", "0", "1", "-", "1", "5", "T", "1", "0", ":", "0", "0", ":", "0", "0">>,
     <<"1", "0", ":", "0", "0">>,
     <<"2", "2", ":", "3", "0", ":", "1", "5">>}

RawStrings == StringsUpTo(Alphabet, MaxLen) \cup CuratedStrings

\* raw values a source hands to convert: query, path, header and cookie sources
\* hand over strings, a body source also numbers, booleans, null and containers
RawValues ==
    {StrV(s) : s \in RawStrings}
    \cup {IntV(2), IntV(22), IntV(99), BoolV(TRUE), BoolV(FALSE), FloatV(25, 1),
          NoneV, DictV(0), ListV(<<IntV(2)>>)}

\* lists of distinct types, as the driver expands a declared type
RECURSIVE TypeListsUpTo(_, _)
TypeListsUpTo(types, n) ==
    IF n = 0 THEN {<<>>}
    ELSE LET shorter == TypeListsUpTo(types, n - 1)
         IN  shorter \cup {Append(l, ty) : l \in shorter, ty \in types}

Distinct(l) == \A i, j \in 1..Len(l) : i # j => l[i] # l[j]

BaseTypes == {"None", "str", "int", "datetime", "time", "date", "IntEnum", "StrEnum"}
QueryTypes == {"None", "int", "float", "bool", "dict", "str", "time", "IntEnum", "StrEnum"}

AllowedTypeLists(types) ==
    {l \in TypeListsUpTo(types, MaxTypes) : l # <<>> /\ Distinct(l)}

\* the datetime_format of the parameter and the verdict of the free-form parser
\* matter to the datetime branch alone
DatetimeFormats(types) == IF In("datetime", types) THEN {Unset, SetS(YmdFormat)} ELSE {Unset}
ParserVerdicts(types, self) ==
    IF In("datetime", types) /\ ~self.datetime_format.some THEN BOOLEAN ELSE {FALSE}

-----------------------------------------------------------------------------
(* Parameter.convert, called on a raw value *)

InitConvert ==
    /\ pc = "call"
    /\ op = "Parameter.convert"
    /\ value \in RawValues
    /\ allowed_types \in AllowedTypeLists(BaseTypes)
    /\ \E format \in DatetimeFormats(allowed_types) :
          param = [DefaultParameter EXCEPT !.datetime_format = format]
    /\ parser_accepts \in ParserVerdicts(allowed_types, param)
    /\ result = NoResult
    /\ log = <<>>

CallParameterConvert ==
    /\ pc = "call"
    /\ op = "Parameter.convert"
    /\ result' = ParameterConvert(param, value, allowed_types, parser_accepts)
    /\ pc' = "done"
    /\ UNCHANGED <<op, value, allowed_types, param, parser_accepts, log>>

NextConvert == CallParameterConvert

SpecConvert == InitConvert /\ [][NextConvert]_vars

-----------------------------------------------------------------------------
(* Query.convert, called on a raw value *)

InitQuery ==
    /\ pc = "call"
    /\ op = "Query.convert"
    /\ value \in RawValues
    /\ allowed_types \in AllowedTypeLists(QueryTypes)
    /\ param = DefaultParameter
    /\ parser_accepts = FALSE
    /\ result = NoResult
    /\ log = <<>>

CallQueryConvert ==
    /\ pc = "call"
    /\ op = "Query.convert"
    /\ result' = QueryConvert(param, value, allowed_types, parser_accepts)
    /\ pc' = "done"
    /\ UNCHANGED <<op, value, allowed_types, param, parser_accepts, log>>

NextQuery == CallQueryConvert

SpecQuery == InitQuery /\ [][NextQuery]_vars


-----------------------------------------------------------------------------
(* Parameter.validate, called on a value *)

UnitAlphabet == {"2", "a"}

\* the values validate takes one by one: strings, numbers, booleans, null, mappings
Units ==
    {StrV(s) : s \in StringsUpTo(UnitAlphabet, MaxLen)}
    \cup {IntV(2), IntV(5), BoolV(TRUE), NoneV, DictV(0), DictV(1)}

ListUnits == {StrV(<<>>), StrV(<<"2">>), StrV(<<"a", "2">>), IntV(5)}

RECURSIVE ListsUpTo(_, _)
ListsUpTo(units, n) ==
    IF n = 0 THEN {<<>>}
    ELSE LET shorter == ListsUpTo(units, n - 1)
         IN  shorter \cup {Append(l, u) : l \in shorter, u \in units}

ValidateValues == Units \cup {ListV(l) : l \in ListsUpTo(ListUnits, MaxListLen)}

\* what a predicate may return
FuncReturns ==
    {BoolV(TRUE), BoolV(FALSE),
     TupleV(<<BoolV(TRUE), StrV(<<"o", "k">>)>>), TupleV(<<BoolV(FALSE), StrV(<<"t", "o", "o", " ", "b", "i", "g">>)>>),
     IntV(42), NoneV, StrV(<<"n", "o">>),
     TupleV(<<BoolV(FALSE)>>), TupleV(<<IntV(0), StrV(<<"n", "o">>)>>)}

\* the number of keyword arguments of validate set on a Parameter
IsSet(b) == IF b THEN 1 ELSE 0
NumSet(self) ==
    IsSet(self.min_list_length.some) + IsSet(self.max_list_length.some)
    + IsSet(self.min_str_length.some) + IsSet(self.max_str_length.some)
    + IsSet(self.min_int.some) + IsSet(self.max_int.some)
    + IsSet(self.whitelist.some) + IsSet(self.blacklist.some)
    + IsSet(self.pattern.some) + IsSet(self.func.some) + IsSet(self.json_schema.some)

Parameters ==
    {self \in
        [min_list_length : {Unset, SetN(1), SetN(2)}, max_list_length : {Unset, SetN(1)},
         min_str_length : {Unset, SetN(1), SetN(2)}, max_str_length : {Unset, SetN(1)},
         min_int : {Unset, SetN(3)}, max_int : {Unset, SetN(3)},
         whitelist : {Unset, SetS(<<"2", "5">>)},
         blacklist : {Unset, SetS(<< <<"a">>, <<"2", "2">> >>)},
         pattern : {Unset, SetS(<<"2">>), SetS(DigitsPattern)},
         func : {NoFunc} \cup {Func(r) : r \in FuncReturns},
         datetime_format : {Unset},
         json_schema : {Unset, SetS(<<"object">>), SetS(<<"array">>)}] :
        NumSet(self) <= MaxConstraints}

InitValidate ==
    /\ pc = "call"
    /\ op = "Parameter.validate"
    /\ value \in ValidateValues
    /\ allowed_types = <<>>
    /\ param \in Parameters
    /\ parser_accepts = FALSE
    /\ result = NoResult
    /\ log = <<>>

CallValidate ==
    /\ pc = "call"
    /\ op = "Parameter.validate"
    /\ LET run == validate(param, value)
       IN  result' = run.out /\ log' = run.log
    /\ pc' = "done"
    /\ UNCHANGED <<op, value, allowed_types, param, parser_accepts>>

NextValidate == CallValidate

SpecValidate == InitValidate /\ [][NextValidate]_vars


-----------------------------------------------------------------------------
(* Properties *)

Done == pc = "done"

MisconfiguredText ==
    "validator function returned incorrect type: {}, should return bool or (bool, str)"

\* the return shapes the predicate contract allows: a bool or a (bool, str) pair
WellShaped(ret) ==
    \/ ret.t = "bool"
    \/ /\ ret.t = "tuple" /\ Len(ret.items) = 2
       /\ ret.items[1].t = "bool" /\ ret.items[2].t = "str"

\* the entries of the log that are calls of the predicate
FuncCalls == {i \in 1..Len(log) : log[i].check \in {"func", "list_func"}}

\* C1: whenever the predicate is called and returns neither a bool nor a
\* (bool, str) pair, validate fails with the misconfigured-validator error.
C1_IllShapedReturnIsMisconfiguration ==
    (Done /\ FuncCalls # {} /\ ~WellShaped(param.func.ret))
        => (result.kind = "ValueError" /\ result.reason.text = MisconfiguredText)

TrueText == <<"t", "r", "u", "e">>
FalseText == <<"f", "a", "l", "s", "e">>

\* C2: Query.convert with acceptable types [bool, int] on a raw string returns
\* the boolean of a case-insensitive true/false, the int of an integer literal,
\* and any other string unchanged; it never ends in another kind of error.
C2_UnionBoolInt ==
    (Done /\ allowed_types = <<"bool", "int">> /\ value.t = "str")
        => result = (IF Lower(value.s) = TrueText THEN Return(BoolV(TRUE))
                     ELSE IF Lower(value.s) = FalseText THEN Return(BoolV(FALSE))
                     ELSE IF IsIntLiteral(value.s) THEN Return(IntV(IntLiteral(value.s)))
                     ELSE Return(value))

\* one coercion of a raw string, on its own
Coercion(type, v) ==
    CASE type = "int" -> PyInt(v)
      [] type = "float" -> PyFloat(v)
      [] type = "bool" ->
            IF Lower(v.s) = TrueText THEN Return(BoolV(TRUE))
            ELSE IF Lower(v.s) = FalseText THEN Return(BoolV(FALSE))
            ELSE ValueError("not a boolean literal")
      [] OTHER -> ValueError("no coercion")

\* the result of the first coercion, in list order, that does not fail
RECURSIVE FirstCoercion(_, _, _)
FirstCoercion(v, types, i) ==
    IF i > Len(types) THEN v
    ELSE IF Coercion(types[i], v).kind = "return" THEN Coercion(types[i], v).value
    ELSE FirstCoercion(v, types, i + 1)

\* the types whose query coercion cannot raise past Query.convert
SoftTypes == {"int", "float", "str"}

\* C3: Query.convert on a raw string tries the coercions in the order of the
\* acceptable-type list and returns the result of the first that does not fail;
\* no later acceptable type overrides it (here for lists of int, float and str).
C3_FirstCoercionWins ==
    (Done /\ value.t = "str" /\ \A i \in 1..Len(allowed_types) : allowed_types[i] \in SoftTypes)
        => result = Return(FirstCoercion(value, allowed_types, 1))

\* C8: in Query.convert, whenever dict is acceptable and the raw string does not
\* parse as JSON, the conversion fails with the invalid-JSON reason, whatever
\* other types are acceptable.
C8_InvalidJsonFailsHard ==
    (Done /\ value.t = "str" /\ In("dict", allowed_types) /\ JsonLoads(value).kind = "ValueError")
        => result = ValueError("invalid JSON")


-----------------------------------------------------------------------------
(* Properties of validate *)

IsListValue == value.t = "list"
MinListViolated == param.min_list_length.some /\ Len(value.items) < param.min_list_length.n
MaxListViolated == param.max_list_length.some /\ Len(value.items) > param.max_list_length.n

\* the reason validate gives for a list that violates a length bound
ListLengthFailure ==
    IF MinListViolated
    THEN Fails("must have at least {} items.", param.min_list_length.n, <<>>)
    ELSE Fails("must have have a maximum of {} items.", param.max_list_length.n, <<>>)

\* the place of a check in the order min length, max length, predicate, schema
ValueRank(check) == CHOOSE k \in 1..Len(ValueChecks) : ValueChecks[k] = check

Logged(unit, check) == \E i \in 1..Len(log) : log[i] = Entry(unit, check)

\* C4: for a list value, validate evaluates the list-level checks (min list
\* length, max list length, the predicate once on the whole list) before any
\* check of any element; a list that violates a length bound fails with the
\* list-length reason and no element is looked at; the predicate is never
\* called per element.
C4_ListChecksBeforeElements ==
    (Done /\ IsListValue) =>
        /\ \A i, j \in 1..Len(log) : (log[i].unit = 0 /\ log[j].unit > 0) => i < j
        /\ \A i, j \in 1..Len(log) :
              (i < j /\ log[i].unit = 0 /\ log[j].unit = 0)
                  => ValueRank(log[i].check) < ValueRank(log[j].check)
        /\ (\E i \in 1..Len(log) : log[i].unit > 0) =>
              /\ param.min_list_length.some => Logged(0, "min_list_length")
              /\ param.max_list_length.some => Logged(0, "max_list_length")
              /\ param.func.some => Logged(0, "list_func")
        /\ \A i \in 1..Len(log) : log[i].check # "func"
        /\ Cardinality(FuncCalls) <= 1
        /\ (MinListViolated \/ MaxListViolated) =>
              /\ result = ListLengthFailure
              /\ \A i \in 1..Len(log) : log[i].unit = 0
              /\ FuncCalls = {}
        /\ (~MinListViolated /\ ~MaxListViolated /\ param.func.some) =>
              /\ Cardinality(FuncCalls) = 1
              /\ Logged(0, "list_func")

\* a list within its length bounds: the predicate ran once on the whole list,
\* then a check of an element failed
C4_Witness ==
    /\ Done /\ IsListValue /\ Len(value.items) = 2
    /\ param.min_list_length.some /\ param.func.some
    /\ Len(log) >= 3
    /\ log[1] = Entry(0, "min_list_length") /\ log[2] = Entry(0, "list_func")
    /\ log[Len(log)].unit = 2
    /\ result.kind = "ValueError"

\* the units validate loops over
NumUnits == IF IsListValue THEN Len(value.items) ELSE 1
UnitOf(u) == IF IsListValue THEN value.items[u] ELSE value

\* unit u violates the k-th unit check: the check is configured and raises ValueError
Violates(u, k) ==
    /\ Configured(param, UnitChecks[k], UnitOf(u), IsListValue)
    /\ Check(param, UnitChecks[k], UnitOf(u)).kind = "ValueError"

Before(p, q) == p[1] < q[1] \/ (p[1] = q[1] /\ p[2] <= q[2])
Violations == {p \in (1..NumUnits) \X (1..Len(UnitChecks)) : Violates(p[1], p[2])}
FirstViolation == CHOOSE p \in Violations : \A q \in Violations : Before(p, q)

\* the checks on the whole value all pass
ValueChecksPass ==
    \A k \in 1..Len(ValueChecks) :
        Configured(param, ValueChecks[k], value, IsListValue)
            => Check(param, ValueChecks[k], value).kind = "return"

\* C5: when units violate configured constraints, validate reports the reason
\* of the earliest violated check in the order min length, max length,
\* whitelist, blacklist, min value, max value, pattern, predicate, element by
\* element, and that check is the last one it evaluates.
C5_EarliestViolationReported ==
    (Done /\ ValueChecksPass /\ Violations # {}) =>
        /\ result = Check(param, UnitChecks[FirstViolation[2]], UnitOf(FirstViolation[1]))
        /\ log[Len(log)] = Entry(FirstViolation[1], UnitChecks[FirstViolation[2]])

\* C10: validate ends in exactly one of two outcomes, a pass or a ValueError
\* carrying a reason; a check that cannot be applied to a unit is a ValueError.
C10_PassOrValueError ==
    Done => (result = Return(BoolV(TRUE)) \/ result.kind = "ValueError")


-----------------------------------------------------------------------------
(* Properties of Parameter.convert *)

\* the optional short-circuit: None is acceptable and the raw value is None
ShortCircuit == In("None", allowed_types) /\ value.t = "NoneType"

FormatMismatchText == "datetime format does not match: {}"

\* C6: with datetime acceptable and no short-circuit: a set datetime_format
\* gives the datetime parsed strictly with it, or the format-mismatch failure;
\* without a format a free-form parse that succeeds gives the datetime and one
\* that fails gives the raw value back unchanged, not an error.
C6_DatetimeConversion ==
    (Done /\ In("datetime", allowed_types) /\ ~ShortCircuit) =>
        IF param.datetime_format.some
        THEN LET r == Strptime(PyStr(value), param.datetime_format.s)
             IN  IF r.kind = "return" THEN result = r
                 ELSE /\ result.kind = "ValueError"
                      /\ result.reason.text = FormatMismatchText
                      /\ result.reason.s = param.datetime_format.s
        ELSE LET r == ParserParse(PyStr(value), parser_accepts)
             IN  IF r.kind = "return" THEN result = r ELSE result = Return(value)

\* no format, a text the free-form parser rejects: the raw string comes back
C6_Witness ==
    /\ Done /\ In("datetime", allowed_types) /\ ~param.datetime_format.some
    /\ value = StrV(<<"a", "b", "c">>)
    /\ result = Return(value)

\* convert ends with the ISO 8601 time of the raw value or the time-format failure
TimeOrTimeFailure ==
    LET r == TimeFromIsoFormat(PyStr(value))
    IN  IF r.kind = "return" THEN result = r
        ELSE result = ValueError("time format does not match ISO 8601")

\* convert ends with the ISO 8601 date of the raw value or the date-format failure
DateOrDateFailure ==
    LET r == DateFromIsoFormat(PyStr(value))
    IN  IF r.kind = "return" THEN result = r
        ELSE result = ValueError("date format does not match ISO 8601")

\* C7 as stated: whenever time is acceptable and the raw value is not None,
\* convert returns the ISO 8601 time or fails with the time-format reason;
\* likewise whenever date is acceptable.
C7_TimeAndDateAlwaysStrict ==
    (Done /\ value.t # "NoneType") =>
        /\ In("time", allowed_types) => TimeOrTimeFailure
        /\ In("date", allowed_types) => DateOrDateFailure

\* C7 as amended: the time branch holds whenever time is acceptable and datetime
\* is not; the date branch whenever date is acceptable and neither datetime nor
\* time is (raw value not None).
C7_TimeAndDateStrictByPriority ==
    (Done /\ value.t # "NoneType") =>
        /\ (In("time", allowed_types) /\ ~In("datetime", allowed_types)) => TimeOrTimeFailure
        /\ (In("date", allowed_types) /\ ~In("datetime", allowed_types)
            /\ ~In("time", allowed_types)) => DateOrDateFailure

\* time and str acceptable, a raw string that is no ISO time: a hard failure,
\* the string is not handed back
C7_Witness ==
    /\ Done /\ In("time", allowed_types) /\ In("str", allowed_types)
    /\ value = StrV(<<"a", "b", "c">>)
    /\ result = ValueError("time format does not match ISO 8601")

\* C9: when the acceptable-type list is exactly one enum type, convert returns
\* the member whose backing value equals the raw value (after int() for an
\* IntEnum) or fails with a ValueError when no member has that value (for a raw
\* value that is present, not None).
C9_EnumConversion ==
    (Done /\ Len(allowed_types) = 1 /\ IsEnumType(allowed_types[1]) /\ value.t # "NoneType") =>
        \/ /\ result.kind = "return" /\ allowed_types[1] = "IntEnum"
           /\ PyInt(value).kind = "return"
           /\ result.value = IntEnumMember(PyInt(value).value.n)
           /\ result.value.n \in IntEnumValues
        \/ /\ result.kind = "return" /\ allowed_types[1] = "StrEnum"
           /\ value.t = "str" /\ result.value = StrEnumMember(value.s)
           /\ value.s \in StrEnumValues
        \/ result.kind = "ValueError"

=============================================================================
